---------------------------- MODULE Spec2Model ----------------------------
(***************************************************************************)
(* Option merging and asset resolution of core/util/options.js             *)
(* (src/unnamed/part_000): the merge strategies, the normalizers,          *)
(* mergeOptions and resolveAsset, over a small model of JavaScript values. *)
(***************************************************************************)
EXTENDS Integers, Sequences, FiniteSets, TLC

VARIABLES
  parent,     \* the parent options handed to mergeOptions
  child,      \* the child options (normalized in place by mergeOptions)
  given,      \* the child options as they were handed to mergeOptions
  vm,         \* the instance handed to mergeOptions, or Undefined
  options,    \* the options mergeOptions returned, or Undefined
  applied,    \* the strategy applications of the last mergeOptions call
  pc,         \* "ready" | "merged" | "called" | "resolved"
  field,      \* the option field the inputs exercise
  setLog,     \* the calls of set(), in order
  data,       \* what the merged data function returned, or Undefined
  to,         \* the target of mergeData
  orig,       \* the target of mergeData as it was before the first merge
  merges,     \* how many objects were merged into `to`
  ref,        \* the identity of the object mergeOptions returned
  source,     \* the object last merged into `to`
  chain,      \* the assets declared along the chain of merges, base first
  id,         \* the id last handed to resolveAsset
  res         \* what resolveAsset returned

vars == <<parent, child, given, vm, options, applied, pc, field, setLog, data,
          to, orig, merges, ref, source, chain, id, res>>

----------------------------------------------------------------------------
(* JavaScript values.  A value is a record tagged with its type; an object *)
(* is its own enumerable properties and its prototype.                     *)

Undefined == [t |-> "undefined"]
Null == [t |-> "null"]
Num(n) == [t |-> "number", num |-> n]
Str(s) == [t |-> "string", chars |-> s]
Fn(name) == [t |-> "function", code |-> "user", name |-> name]
Arr(elems) == [t |-> "array", elems |-> elems]
Obj(own, proto) == [t |-> "object", own |-> own, proto |-> proto]

\* the function with no argument: the properties of {}
NoProps == [k \in {} |-> Undefined]
EmptyObj == Obj(NoProps, Null)
\* { k: v }
Prop(k, v) == [x \in {k} |-> v]
\* Object.create(proto)
ObjectCreate(proto) == Obj(NoProps, proto)

\* a data factory: data () { return <returns> }
Factory(returns) == [t |-> "function", code |-> "factory", returns |-> returns]
\* a component constructor carrying its options
Ctor(opts) == [t |-> "function", code |-> "ctor", options |-> opts]

TypeOf(v) == IF v.t \in {"array", "null"} THEN "object" ELSE v.t
IsArray(v) == v.t = "array"
IsPlainObject(v) == v.t = "object"

\* ToBoolean
Truthy(v) ==
  /\ v.t \notin {"undefined", "null"}
  /\ (v.t = "number" => v.num # 0)
  /\ (v.t = "string" => v.chars # <<>>)

HasOwn(o, k) == o.t = "object" /\ k \in DOMAIN o.own

RECURSIVE Get(_, _)
\* o[k]: own property, else the prototype's
Get(o, k) ==
  IF o.t # "object" THEN Undefined
  ELSE IF k \in DOMAIN o.own THEN o.own[k]
  ELSE IF o.proto.t = "null" THEN Undefined
  ELSE Get(o.proto, k)

RECURSIVE ForInKeys(_)
\* the keys `for (key in o)` visits: own and inherited
ForInKeys(o) ==
  IF o.t # "object" THEN {}
  ELSE DOMAIN o.own \cup (IF o.proto.t = "null" THEN {} ELSE ForInKeys(o.proto))

\* o[k] = v
Put(o, k, v) ==
  Obj([x \in DOMAIN o.own \cup {k} |-> IF x = k THEN v ELSE o.own[x]], o.proto)

\* shared/util extend(to, _from): for (key in _from) to[key] = _from[key]
Extend(target, from) ==
  Obj([x \in DOMAIN target.own \cup ForInKeys(from) |->
         IF x \in ForInKeys(from) THEN Get(from, x) ELSE target.own[x]],
      target.proto)

\* Array.prototype.concat with one argument
Concat(arr, v) ==
  Arr(arr.elems \o (IF IsArray(v) THEN v.elems ELSE <<v>>))

RECURSIVE SetToSeq(_)
\* the members of a set in some fixed order
SetToSeq(S) ==
  IF S = {} THEN <<>>
  ELSE LET x == CHOOSE y \in S : TRUE IN <<x>> \o SetToSeq(S \ {x})

----------------------------------------------------------------------------
(* Names are sequences of characters, so that camelize and capitalize act  *)
(* on them as the code does.                                               *)

Chars == {"a", "b", "A", "B", "-"}

Upper(c) == CASE c = "a" -> "A" [] c = "b" -> "B" [] OTHER -> c

\* \w of the regular expression /-(\w)/g
IsWordChar(c) == c # "-"

RECURSIVE Camelize(_)
\* shared/util camelize: str.replace(/-(\w)/g, (_, c) => c.toUpperCase())
Camelize(s) ==
  IF s = <<>> THEN <<>>
  ELSE IF s[1] = "-" /\ Len(s) >= 2 /\ IsWordChar(s[2])
    THEN <<Upper(s[2])>> \o Camelize(SubSeq(s, 3, Len(s)))
  ELSE <<s[1]>> \o Camelize(Tail(s))

\* shared/util capitalize: str.charAt(0).toUpperCase() + str.slice(1)
Capitalize(s) == IF s = <<>> THEN <<>> ELSE <<Upper(s[1])>> \o Tail(s)

----------------------------------------------------------------------------
(* mergeData and the data / provide strategies.                            *)

\* observer set(target, key, val): installs the property and registers it;
\* the registration is recorded as the path of the target and the key
SetProp(target, key, val) == Put(target, key, val)

RECURSIVE MergeDataKeys(_, _, _, _, _)
RECURSIVE MergeData(_, _, _)
\* mergeData(to, from) at `path` below the outermost target; the result is
\* the target after the merge and the set() calls made, in order
MergeData(target, from, path) ==
  IF ~Truthy(from) THEN [to |-> target, log |-> <<>>]
  ELSE MergeDataKeys(target, from, SetToSeq(DOMAIN from.own), path, <<>>)

RECURSIVE MergeDataKeysLastWins(_, _, _, _, _)
\* the loop, were a value the target owns overwritten by the incoming one
MergeDataKeysLastWins(target, from, keys, path, log) ==
  IF keys = <<>> THEN [to |-> target, log |-> log]
  ELSE
    LET key == keys[1]
        fromVal == from.own[key]
    IN IF ~HasOwn(target, key)
         THEN MergeDataKeysLastWins(SetProp(target, key, fromVal), from, Tail(keys),
                                    path, Append(log, [path |-> path, key |-> key]))
       ELSE MergeDataKeysLastWins(Put(target, key, fromVal), from, Tail(keys),
                                  path, log)

RECURSIVE MergeDataKeysRegistersAll(_, _, _, _, _)
\* the loop, were set() called for the keys the target owns as well
MergeDataKeysRegistersAll(target, from, keys, path, log) ==
  IF keys = <<>> THEN [to |-> target, log |-> log]
  ELSE
    LET key == keys[1]
        toVal == Get(target, key)
        fromVal == from.own[key]
        logged == Append(log, [path |-> path, key |-> key])
    IN IF ~HasOwn(target, key)
         THEN MergeDataKeysRegistersAll(SetProp(target, key, fromVal), from,
                                        Tail(keys), path, logged)
       ELSE IF IsPlainObject(toVal) /\ IsPlainObject(fromVal)
         THEN LET sub == MergeData(toVal, fromVal, Append(path, key))
              IN MergeDataKeysRegistersAll(Put(target, key, sub.to), from,
                                           Tail(keys), path, logged \o sub.log)
       ELSE MergeDataKeysRegistersAll(target, from, Tail(keys), path, logged)

\* the loop of mergeData over the keys still to visit
MergeDataKeys(target, from, keys, path, log) ==
  IF keys = <<>> THEN [to |-> target, log |-> log]
  ELSE
    LET key == keys[1]
        toVal == Get(target, key)
        fromVal == from.own[key]
    IN IF ~HasOwn(target, key)
         THEN MergeDataKeys(SetProp(target, key, fromVal), from, Tail(keys), path,
                            Append(log, [path |-> path, key |-> key]))
       ELSE IF IsPlainObject(toVal) /\ IsPlainObject(fromVal)
         THEN LET sub == MergeData(toVal, fromVal, Append(path, key))
              IN MergeDataKeys(Put(target, key, sub.to), from, Tail(keys), path,
                               log \o sub.log)
       ELSE MergeDataKeys(target, from, Tail(keys), path, log)

\* the closure mergedDataFn of mergeDataOrFn
MergedDataFn(parentVal, childVal) ==
  [t |-> "function", code |-> "mergedDataFn",
   parentVal |-> parentVal, childVal |-> childVal]

\* the closure mergedInstanceDataFn of mergeDataOrFn
MergedInstanceDataFn(parentVal, childVal, inst) ==
  [t |-> "function", code |-> "mergedInstanceDataFn",
   parentVal |-> parentVal, childVal |-> childVal, vm |-> inst]

\* mergeDataOrFn, were the merge wrapped whichever operands are present
MergeDataOrFnAlwaysWraps(parentVal, childVal, inst) ==
  IF ~Truthy(inst)
    THEN IF Truthy(parentVal) \/ Truthy(childVal)
           THEN MergedDataFn(parentVal, childVal)
         ELSE Undefined
  ELSE IF Truthy(parentVal) \/ Truthy(childVal)
    THEN MergedInstanceDataFn(parentVal, childVal, inst)
  ELSE Undefined

MergeDataOrFn(parentVal, childVal, inst) ==
  IF ~Truthy(inst)
    THEN IF ~Truthy(childVal) THEN parentVal
         ELSE IF ~Truthy(parentVal) THEN childVal
         ELSE MergedDataFn(parentVal, childVal)
  ELSE IF Truthy(parentVal) \/ Truthy(childVal)
    THEN MergedInstanceDataFn(parentVal, childVal, inst)
  ELSE Undefined

\* strats.data
StratData(parentVal, childVal, inst) ==
  IF ~Truthy(inst)
    THEN IF Truthy(childVal) /\ TypeOf(childVal) # "function"
           THEN parentVal
         ELSE MergeDataOrFn(parentVal, childVal, Undefined)
  ELSE MergeDataOrFn(parentVal, childVal, inst)

\* the set() calls of a mergeData call made by a data function itself
Direct(log) ==
  [i \in DOMAIN log |-> [call |-> <<>>, path |-> log[i].path, key |-> log[i].key]]

\* the set() calls made while evaluating the operand `name` of a closure
Nested(log, name) ==
  [i \in DOMAIN log |-> [log[i] EXCEPT !.call = <<name>> \o @]]

RECURSIVE CallFn(_)
\* calling a data function: what it returns and the set() calls it makes,
\* each with the operand nesting of the mergeData call that made it
CallFn(f) ==
  LET Operand(v, name) ==
        IF TypeOf(v) = "function"
          THEN LET r == CallFn(v) IN [ret |-> r.ret, log |-> Nested(r.log, name)]
        ELSE [ret |-> v, log |-> <<>>]
  IN CASE f.code = "factory" -> [ret |-> f.returns, log |-> <<>>]
       [] f.code = "mergedDataFn" ->
            LET c == Operand(f.childVal, "childVal")
                p == Operand(f.parentVal, "parentVal")
                m == MergeData(c.ret, p.ret, <<>>)
            IN [ret |-> m.to, log |-> c.log \o p.log \o Direct(m.log)]
       [] f.code = "mergedInstanceDataFn" ->
            LET instanceData == Operand(f.childVal, "childVal")
                defaultData == Operand(f.parentVal, "parentVal")
            IN IF Truthy(instanceData.ret)
                 THEN LET m == MergeData(instanceData.ret, defaultData.ret, <<>>)
                      IN [ret |-> m.to,
                          log |-> instanceData.log \o defaultData.log \o Direct(m.log)]
               ELSE [ret |-> defaultData.ret,
                     log |-> instanceData.log \o defaultData.log]
       [] OTHER -> [ret |-> Undefined, log |-> <<>>]

----------------------------------------------------------------------------
(* The other strategies.                                                   *)

\* mergeHook, were the child's hooks put before the parent's
MergeHookChildFirst(parentVal, childVal) ==
  IF Truthy(childVal)
    THEN IF Truthy(parentVal)
           THEN Concat(IF IsArray(childVal) THEN childVal ELSE Arr(<<childVal>>),
                       parentVal)
         ELSE IF IsArray(childVal) THEN childVal
         ELSE Arr(<<childVal>>)
  ELSE parentVal

\* mergeHook
MergeHook(parentVal, childVal) ==
  IF Truthy(childVal)
    THEN IF Truthy(parentVal) THEN Concat(parentVal, childVal)
         ELSE IF IsArray(childVal) THEN childVal
         ELSE Arr(<<childVal>>)
  ELSE parentVal

\* mergeAssets, were the result created without the parent as prototype
MergeAssetsNoFallback(parentVal, childVal) ==
  IF Truthy(childVal) THEN Extend(ObjectCreate(Null), childVal)
  ELSE ObjectCreate(Null)

\* mergeAssets
MergeAssets(parentVal, childVal) ==
  LET created == ObjectCreate(IF Truthy(parentVal) THEN parentVal ELSE Null)
  IN IF Truthy(childVal) THEN Extend(created, childVal) ELSE created

\* env nativeWatch: ({}).watch, a function where the platform defines it
NativeWatch == [t |-> "function", code |-> "native", name |-> "watch"]

\* the entry, were the child's handler to replace the parent's
WatchEntryOverrides(existing, childEntry) ==
  IF IsArray(childEntry) THEN childEntry ELSE Arr(<<childEntry>>)

\* one entry of the merged watch object (the body of the for-in loop)
WatchEntry(existing, childEntry) ==
  LET asArray == IF Truthy(existing) /\ ~IsArray(existing)
                   THEN Arr(<<existing>>) ELSE existing
  IN IF Truthy(asArray) THEN Concat(asArray, childEntry)
     ELSE IF IsArray(childEntry) THEN childEntry
     ELSE Arr(<<childEntry>>)

\* strats.watch
StratWatch(parentVal0, childVal0) ==
  LET parentVal == IF parentVal0 = NativeWatch THEN Undefined ELSE parentVal0
      childVal == IF childVal0 = NativeWatch THEN Undefined ELSE childVal0
  IN IF ~Truthy(childVal)
       THEN ObjectCreate(IF Truthy(parentVal) THEN parentVal ELSE Null)
     ELSE IF ~Truthy(parentVal) THEN childVal
     ELSE LET ret == Extend(EmptyObj, parentVal)
          IN Obj([k \in DOMAIN ret.own \cup ForInKeys(childVal) |->
                    IF k \in ForInKeys(childVal)
                      THEN WatchEntry(Get(ret, k), Get(childVal, k))
                    ELSE ret.own[k]],
                 Null)

\* strats.props = strats.methods = strats.inject = strats.computed
StratObject(parentVal, childVal) ==
  IF ~Truthy(parentVal) THEN childVal
  ELSE LET ret == Extend(ObjectCreate(Null), parentVal)
       IN IF Truthy(childVal) THEN Extend(ret, childVal) ELSE ret

\* defaultStrat, were the parent's value preferred
DefaultStratParentFirst(parentVal, childVal) ==
  IF parentVal = Undefined THEN childVal ELSE parentVal

\* defaultStrat
DefaultStrat(parentVal, childVal) ==
  IF childVal = Undefined THEN parentVal ELSE childVal

\* shared/constants LIFECYCLE_HOOKS and ASSET_TYPES (+ 's'), as far as used
LifecycleHooks == {"created", "mounted"}
AssetFields == {"components", "directives", "filters"}

\* strats[key] || defaultStrat, applied
Strat(key, parentVal, childVal, inst) ==
  CASE key \in {"data"} -> StratData(parentVal, childVal, inst)
    [] key = "provide" -> MergeDataOrFn(parentVal, childVal, inst)
    [] key \in LifecycleHooks -> MergeHook(parentVal, childVal)
    [] key \in AssetFields -> MergeAssets(parentVal, childVal)
    [] key = "watch" -> StratWatch(parentVal, childVal)
    [] key \in {"props", "methods", "inject", "computed"} ->
         StratObject(parentVal, childVal)
    [] OTHER -> DefaultStrat(parentVal, childVal)

----------------------------------------------------------------------------
(* The normalizers.  Each returns the options object after its in-place    *)
(* change.                                                                 *)

\* normalizeProps; where two keys camelize alike the code keeps the one
\* visited last, the model keeps one of them
NormalizeProps(o) ==
  LET props == Get(o, "props")
      fromArray ==
        LET names == {Camelize(props.elems[i].chars) :
                        i \in {j \in DOMAIN props.elems : props.elems[j].t = "string"}}
        IN Obj([n \in names |-> Obj(Prop("type", Null), Null)], Null)
      fromObject ==
        LET keys == ForInKeys(props)
            KeyOf(n) == CHOOSE k \in keys : Camelize(k) = n
            Val(n) == Get(props, KeyOf(n))
        IN Obj([n \in {Camelize(k) : k \in keys} |->
                  IF IsPlainObject(Val(n)) THEN Val(n)
                  ELSE Obj(Prop("type", Val(n)), Null)],
               Null)
  IN IF ~Truthy(props) THEN o
     ELSE Put(o, "props",
              IF IsArray(props) THEN fromArray
              ELSE IF IsPlainObject(props) THEN fromObject
              ELSE EmptyObj)

\* normalizeInject
NormalizeInject(o) ==
  LET inject == Get(o, "inject")
      fromArray ==
        Obj([n \in {inject.elems[i].chars : i \in DOMAIN inject.elems} |->
               Obj(Prop("from", Str(n)), Null)],
            Null)
      fromObject ==
        Obj([k \in ForInKeys(inject) |->
               LET val == Get(inject, k)
               IN IF IsPlainObject(val)
                    THEN Extend(Obj(Prop("from", Str(k)), Null), val)
                  ELSE Obj(Prop("from", val), Null)],
            Null)
  IN Put(o, "inject",
         IF IsArray(inject) THEN fromArray
         ELSE IF IsPlainObject(inject) THEN fromObject
         ELSE EmptyObj)

\* normalizeDirectives, were a bare function expanded to { bind } alone
NormalizeDirectivesBindOnly(o) ==
  LET dirs == Get(o, "directives")
      expanded == {k \in ForInKeys(dirs) : TypeOf(Get(dirs, k)) = "function"}
  IN IF ~Truthy(dirs) \/ dirs.t # "object" THEN o
     ELSE Put(o, "directives",
              Obj([k \in DOMAIN dirs.own \cup expanded |->
                     IF k \in expanded THEN Obj(Prop("bind", Get(dirs, k)), Null)
                     ELSE dirs.own[k]],
                  dirs.proto))

\* normalizeDirectives
NormalizeDirectives(o) ==
  LET dirs == Get(o, "directives")
      expanded == {k \in ForInKeys(dirs) : TypeOf(Get(dirs, k)) = "function"}
  IN IF ~Truthy(dirs) \/ dirs.t # "object" THEN o
     ELSE Put(o, "directives",
              Obj([k \in DOMAIN dirs.own \cup expanded |->
                     IF k \in expanded
                       THEN Obj([h \in {"bind", "update"} |-> Get(dirs, k)], Null)
                     ELSE dirs.own[k]],
                  dirs.proto))

----------------------------------------------------------------------------
(* mergeOptions.                                                           *)

\* the keys, were every key of child visited whether parent owns it or not
MergeFieldKeysUnfiltered(parentOpts, childOpts) ==
  SetToSeq(ForInKeys(parentOpts)) \o SetToSeq(ForInKeys(childOpts))

\* the keys mergeField is called with, in order: every key of parent, then
\* every key of child that parent does not own
MergeFieldKeys(parentOpts, childOpts) ==
  LET NotOwned(k) == ~HasOwn(parentOpts, k)
  IN SetToSeq(ForInKeys(parentOpts))
       \o SelectSeq(SetToSeq(ForInKeys(childOpts)), NotOwned)

\* the identity of the object `const options = {}` builds
OptionsObject(parentRef) == "options"

RECURSIVE MergeOptions(_, _, _, _)
RECURSIVE MergeMixins(_, _, _, _, _)

\* what a call of mergeOptions yields: the options returned, the child after
\* its in-place normalization, the strategy applications (key, parentVal,
\* childVal, result) made, and the identity of the object returned

\* the mergeField loops over the parent and child as they stand after
\* extends and mixins are folded in; `before` holds the applications made
\* while folding
MergeFields(parentOpts, childOpts, isCtor, before, inst, depth) ==
  LET keys == MergeFieldKeys(parentOpts, childOpts)
      Application(k) ==
        [depth |-> depth, key |-> k,
         parentVal |-> Get(parentOpts, k), childVal |-> Get(childOpts, k),
         result |-> Strat(k, Get(parentOpts, k), Get(childOpts, k), inst)]
  IN [options |->
        Obj([k \in {keys[i] : i \in DOMAIN keys} |->
               Strat(k, Get(parentOpts, k), Get(childOpts, k), inst)],
            Null),
      child |-> IF isCtor THEN Ctor(childOpts) ELSE childOpts,
      applied |-> before \o [i \in DOMAIN keys |-> Application(keys[i])],
      ref |-> OptionsObject("parent")]

\* the applications of one mixin put before those of the mixins after it
PrependApplied(log, rest) == [rest EXCEPT !.applied = log \o rest.applied]

\* the rest of the loop over child.mixins once mixins[i] is merged as `one`
MergeMixinsFrom(one, mixins, i, inst, depth) ==
  PrependApplied(one.applied,
                 MergeMixins(one.options, [mixins EXCEPT ![i] = one.child],
                             i + 1, inst, depth))

\* the loop over child.mixins from index i on: the parent accumulated, the
\* mixins as normalized, and the strategy applications made
MergeMixins(parentOpts, mixins, i, inst, depth) ==
  IF i > Len(mixins)
    THEN [options |-> parentOpts, mixins |-> mixins, applied |-> <<>>]
  ELSE MergeMixinsFrom(MergeOptions(parentOpts, mixins[i], inst, depth),
                       mixins, i, inst, depth)

\* parent = the parent with the mixins folded in, then the fields
AfterMixins(mix, childOpts, isCtor, before, inst, depth) ==
  MergeFields(mix.options, Put(childOpts, "mixins", Arr(mix.mixins)), isCtor,
              before \o mix.applied, inst, depth)

\* if (child.mixins) ...
MergeChildMixins(parentOpts, childOpts, isCtor, before, inst, depth) ==
  IF Truthy(Get(childOpts, "mixins"))
    THEN AfterMixins(MergeMixins(parentOpts, Get(childOpts, "mixins").elems, 1,
                                 inst, depth + 1),
                     childOpts, isCtor, before, inst, depth)
  ELSE MergeFields(parentOpts, childOpts, isCtor, before, inst, depth)

\* parent = mergeOptions(parent, child.extends, vm), then the mixins
AfterExtends(ext, childOpts, isCtor, inst, depth) ==
  MergeChildMixins(ext.options, Put(childOpts, "extends", ext.child), isCtor,
                   ext.applied, inst, depth)

\* if (child.extends) ...
MergeChildExtends(parentOpts, childOpts, isCtor, inst, depth) ==
  IF Truthy(Get(childOpts, "extends"))
    THEN AfterExtends(MergeOptions(parentOpts, Get(childOpts, "extends"), inst,
                                   depth + 1),
                      childOpts, isCtor, inst, depth)
  ELSE MergeChildMixins(parentOpts, childOpts, isCtor, <<>>, inst, depth)

\* mergeOptions(parent, child, vm) called at recursion depth `depth`: a
\* constructor stands for its options, the child is normalized, then
\* extends, mixins and the fields are merged
MergeOptions(parentArg, childArg, inst, depth) ==
  MergeChildExtends(
    parentArg,
    NormalizeDirectives(NormalizeInject(NormalizeProps(
      IF TypeOf(childArg) = "function" THEN childArg.options ELSE childArg))),
    TypeOf(childArg) = "function", inst, depth)

----------------------------------------------------------------------------
(* resolveAsset.                                                           *)

\* resolveAsset, were the lookup through the prototype chain made first
ResolveAssetChainFirst(opts, type, identifier) ==
  IF TypeOf(identifier) # "string" THEN Undefined
  ELSE LET assets == Get(opts, type)
           name == identifier.chars
           camelizedId == Camelize(name)
           PascalCaseId == Capitalize(camelizedId)
       IN IF Truthy(Get(assets, name)) THEN Get(assets, name)
          ELSE IF Truthy(Get(assets, camelizedId)) THEN Get(assets, camelizedId)
          ELSE Get(assets, PascalCaseId)

\* resolveAsset(options, type, id); identifier is a string value or not
ResolveAsset(opts, type, identifier) ==
  IF TypeOf(identifier) # "string" THEN Undefined
  ELSE LET assets == Get(opts, type)
           name == identifier.chars
           camelizedId == Camelize(name)
           PascalCaseId == Capitalize(camelizedId)
       IN IF HasOwn(assets, name) THEN Get(assets, name)
          ELSE IF HasOwn(assets, camelizedId) THEN Get(assets, camelizedId)
          ELSE IF HasOwn(assets, PascalCaseId) THEN Get(assets, PascalCaseId)
          ELSE IF Truthy(Get(assets, name)) THEN Get(assets, name)
          ELSE IF Truthy(Get(assets, camelizedId)) THEN Get(assets, camelizedId)
          ELSE Get(assets, PascalCaseId)

----------------------------------------------------------------------------
(* The inputs.                                                             *)

MaxMixins == 2

\* names as character sequences
Na == <<"a">>
Nb == <<"b">>
NA == <<"A">>
NaDashB == <<"a", "-", "b">>
NaB == <<"a", "B">>
NAB == <<"A", "B">>

\* the objects data functions return: x is absent, a number or an object
\* with the key n; y is absent or a number
InnerObjs == {EmptyObj, Obj(Prop("n", Num(1)), Null), Obj(Prop("n", Num(2)), Null)}
DataObjs ==
  {Obj([k \in ks |-> IF k = "x" THEN xv ELSE Num(3)], Null) :
     ks \in SUBSET {"x", "y"}, xv \in {Num(1), Num(2)} \cup InnerObjs}

\* a few of them, for the mixins and the base of a data merge
SomeDataObjs ==
  {Obj(Prop("y", Num(3)), Null),
   Obj(Prop("x", Obj(Prop("n", Num(2)), Null)), Null)}

\* the objects the data of a child returns or is
ChildDataObjs ==
  {EmptyObj,
   Obj(Prop("x", Num(1)), Null),
   Obj(Prop("y", Num(3)), Null),
   Obj(Prop("x", EmptyObj), Null),
   Obj(Prop("x", Obj(Prop("n", Num(1)), Null)), Null),
   Obj([k \in {"x", "y"} |->
          IF k = "x" THEN Obj(Prop("n", Num(1)), Null) ELSE Num(3)], Null)}

HookNames == <<"m1", "m2", "m3", "m4">>

String == Fn("String")
TypeNull == Obj(Prop("type", Null), Null)

\* the values the field f takes in the parent options (a resolved config)
ParentVals(f) ==
  CASE f = "a" -> {Undefined, Num(0), Num(9)}
    [] f = "created" ->
         {Undefined, Arr(<<Fn("p1")>>), Arr(<<Fn("p1"), Fn("p2")>>)}
    [] f = "data" -> {Undefined} \cup {Factory(o) : o \in SomeDataObjs}
    [] f = "provide" ->
         {Undefined} \cup {Factory(o) : o \in SomeDataObjs} \cup SomeDataObjs
    [] f = "watch" ->
         {Undefined, NativeWatch,
          Obj(Prop("w", Fn("p1")), Null),
          Obj([k \in {"w", "v"} |->
                 IF k = "w" THEN Arr(<<Fn("p1"), Fn("p2")>>) ELSE Fn("p3")], Null)}
    [] f = "props" -> {Undefined, Obj(Prop(Nb, TypeNull), Null)}
    [] f = "inject" ->
         {Undefined, Obj(Prop(Nb, Obj(Prop("from", Str(Nb)), Null)), Null)}
    [] f = "directives" ->
         {Undefined,
          Obj(NoProps, Obj(Prop(Nb, Obj(Prop("bind", Fn("p1")), Null)), Null))}

\* the values the field f takes in a child, a base config or a mixin;
\* tag names the functions the node declares
NodeVals(f, tag) ==
  CASE f = "a" -> {Undefined, Num(0), Num(3)}
    [] f = "created" ->
         {Undefined, Fn(tag), Arr(<<Fn(tag)>>), Arr(<<Fn(tag), Fn("g")>>)}
    [] f \in {"data", "provide"} ->
         {Undefined} \cup {Factory(o) : o \in ChildDataObjs} \cup ChildDataObjs
    [] f = "watch" ->
         {Undefined, NativeWatch,
          Obj(Prop("w", Fn(tag)), Null),
          Obj(Prop("w", Arr(<<Fn(tag), Fn("g")>>)), Null),
          Obj(Prop("w", Str(Na)), Null),
          Obj(Prop("u", Fn(tag)), Null)}
    [] f = "props" ->
         {Undefined, Num(0), Str(Na),
          Arr(<<Str(NaDashB), Str(Na)>>),
          Arr(<<Str(Na), Num(1)>>),
          Obj(Prop(NaDashB, String), Null),
          Obj(Prop(Na, Null), Null),
          Obj(Prop(Na, Obj(Prop("type", String), Null)), Null),
          Obj(Prop(NaDashB, Obj(Prop("default", Num(1)), Null)), Null)}
    [] f = "inject" ->
         {Undefined, Num(5),
          Arr(<<Str(Na), Str(NaDashB)>>),
          Obj(Prop(Na, Str(Nb)), Null),
          Obj(Prop(Na, Obj(Prop("default", Num(1)), Null)), Null),
          Obj(Prop(Na, Obj([k \in {"from", "default"} |->
                              IF k = "from" THEN Str(Nb) ELSE Num(1)], Null)), Null)}
    [] f = "directives" ->
         {Undefined,
          Obj(Prop(Na, Fn(tag)), Null),
          Obj(Prop(Na, Obj(Prop("bind", Fn(tag)), Null)), Null),
          Obj([k \in {Na, NaB} |->
                 IF k = Na THEN Fn(tag) ELSE Obj(Prop("inserted", Fn("g")), Null)],
              Null)}

\* the values the field f takes in the mixin or base config named tag,
\* the i-th of the nodes folded into the parent
FoldedVals(f, tag, i) ==
  CASE f = "a" -> {Undefined, Num(i)}
    [] f = "created" -> {Undefined, Fn(tag), Arr(<<Fn(tag), Fn("g")>>)}
    [] f \in {"data", "provide"} ->
         {Undefined,
          Factory(IF i % 2 = 1 THEN Obj(Prop("y", Num(3)), Null)
                  ELSE Obj(Prop("x", Obj(Prop("n", Num(2)), Null)), Null))}
    [] f = "watch" ->
         {Undefined, Obj(Prop("w", Fn(tag)), Null),
          Obj(Prop("v", Arr(<<Fn(tag)>>)), Null)}
    [] f = "props" -> {Undefined, Arr(<<Str(NaDashB)>>)}
    [] f = "inject" -> {Undefined, Obj(Prop(Nb, Str(Na)), Null)}
    [] f = "directives" -> {Undefined, Obj(Prop(Nb, Fn(tag)), Null)}

Fields == {"a", "created", "data", "provide", "watch", "props", "inject",
           "directives"}

\* an options object holding the field f (unless v is undefined), and the
\* extends and mixins given
Node(f, v, e, ms) ==
  LET keys == (IF v = Undefined THEN {} ELSE {f})
                \cup (IF e = Undefined THEN {} ELSE {"extends"})
                \cup (IF ms = <<>> THEN {} ELSE {"mixins"})
  IN Obj([k \in keys |->
            IF k = "extends" THEN e ELSE IF k = "mixins" THEN Arr(ms) ELSE v],
         Null)

\* the base configs a child may extend: none, an options object, or a
\* constructor carrying resolved options
ExtendsVals(f) ==
  {Undefined} \cup {Node(f, v, Undefined, <<>>) : v \in FoldedVals(f, "e1", 8)}
    \cup (IF f = "a" THEN {Ctor(Node(f, Num(7), Undefined, <<>>))} ELSE {})

\* the mixins that may stand at index i of a mixin list
MixinsAt(f, i) == {Node(f, v, Undefined, <<>>) : v \in FoldedVals(f, HookNames[i], i)}

\* the mixin lists of at most MaxMixins mixins
MixinLists(f) ==
  UNION {{ms \in [1..n -> UNION {MixinsAt(f, i) : i \in 1..n}] :
            \A i \in 1..n : ms[i] \in MixinsAt(f, i)} :
         n \in 0..MaxMixins}

Vm == Obj(Prop("_uid", Num(1)), Null)

----------------------------------------------------------------------------
(* Merging: mergeOptions on a parent and a child, then the call of the     *)
(* data function it returned.                                              *)

Init ==
  \E f \in Fields :
    \E pv \in ParentVals(f), cv \in NodeVals(f, "c1"), e \in ExtendsVals(f),
       ms \in MixinLists(f),
       inst \in IF f \in {"data", "provide"} THEN {Undefined, Vm} ELSE {Undefined} :
      /\ field = f
      /\ parent = Node(f, pv, Undefined, <<>>)
      /\ child = Node(f, cv, e, ms)
      /\ given = Node(f, cv, e, ms)
      /\ vm = inst
      /\ options = Undefined
      /\ applied = <<>>
      /\ ref = "none"
      /\ pc = "ready"
      /\ setLog = <<>>
      /\ data = Undefined
      /\ to = Undefined
      /\ orig = Undefined
      /\ source = Undefined
      /\ merges = 0
      /\ chain = <<>>
      /\ id = Undefined
      /\ res = Undefined

\* the options, the normalized child and the record of the call are set
\* from what mergeOptions yields
Returned(r) ==
  /\ options' = r.options
  /\ child' = r.child
  /\ applied' = r.applied
  /\ ref' = r.ref

\* options = mergeOptions(parent, child, vm)
MergeOptionsCall ==
  /\ pc = "ready"
  /\ Returned(MergeOptions(parent, child, vm, 0))
  /\ pc' = "merged"
  /\ UNCHANGED <<parent, given, vm, field, setLog, data, to, orig, source, merges, chain,
                 id, res>>

\* data = options[field].call(vm), as instance initialization does
CallData ==
  /\ pc = "merged"
  /\ field \in {"data", "provide"}
  /\ TypeOf(Get(options, field)) = "function"
  /\ LET r == CallFn(Get(options, field))
     IN /\ data' = r.ret
        /\ setLog' = r.log
  /\ pc' = "called"
  /\ UNCHANGED <<parent, child, given, vm, options, applied, ref, field, to, orig, source,
                 merges, chain, id, res>>

Next == MergeOptionsCall \/ CallData

Spec == Init /\ [][Next]_vars

----------------------------------------------------------------------------
(* Properties of mergeOptions.                                             *)

\* the options object a child, base config or mixin stands for
OptionsOf(node) == IF TypeOf(node) = "function" THEN node.options ELSE node

\* the mixins and the base config of the child
MixinsOf(node) == IF HasOwn(node, "mixins") THEN node.own["mixins"].elems ELSE <<>>
HasExtends(node) == HasOwn(node, "extends")
ExtendsOf(node) == OptionsOf(node.own["extends"])

\* the largest member of a non-empty set of numbers
Last(S) == CHOOSE i \in S : \A j \in S : j <= i

\* the value the claim gives the field "a": the child's, else the last
\* defining mixin's, else the base config's, else the parent's
OverrideExpected ==
  LET Own(node) == Get(OptionsOf(node), "a")
      ms == MixinsOf(child)
      defining == {i \in DOMAIN ms : Own(ms[i]) # Undefined}
  IN IF Own(child) # Undefined THEN Own(child)
     ELSE IF defining # {} THEN Own(ms[Last(defining)])
     ELSE IF HasExtends(child) /\ Own(ExtendsOf(child)) # Undefined
       THEN Own(ExtendsOf(child))
     ELSE Get(parent, "a")

\* C1: a field of the default strategy resolves to the child's own value,
\* else to the last mixin's that defines it, else to the base config's, else
\* to the parent's
C1_OverrideOrder ==
  (pc # "ready" /\ field = "a") => Get(options, "a") = OverrideExpected

\* two mixins define the field and the child does not: the later one wins
C1_Witness ==
  /\ pc = "merged" /\ field = "a"
  /\ Len(MixinsOf(child)) = 2
  /\ Get(MixinsOf(child)[1], "a") = Num(1)
  /\ Get(MixinsOf(child)[2], "a") = Num(2)
  /\ ~HasOwn(child, "a")
  /\ Get(options, "a") = Num(2)

\* a hook value as a sequence of callables
HookSeq(v) == IF ~Truthy(v) THEN <<>> ELSE IF IsArray(v) THEN v.elems ELSE <<v>>

RECURSIVE HooksOfMixins(_, _)
\* the hooks the mixins from index i on declare, in list order
HooksOfMixins(ms, i) ==
  IF i > Len(ms) THEN <<>>
  ELSE HookSeq(Get(OptionsOf(ms[i]), "created")) \o HooksOfMixins(ms, i + 1)

\* the hooks of the parent, the base config, the mixins and the child
HooksExpected ==
  HookSeq(Get(parent, "created"))
    \o (IF HasExtends(child) THEN HookSeq(Get(ExtendsOf(child), "created")) ELSE <<>>)
    \o HooksOfMixins(MixinsOf(child), 1)
    \o HookSeq(Get(child, "created"))

\* C5: a hook merges to the parent's sequence followed by the child's
\* callables; over mixins the result lists the parent's hooks, each mixin's
\* in list order and the child's, none dropped or duplicated
C5_HookConcat ==
  (pc # "ready" /\ field = "created") =>
    /\ \A i \in DOMAIN applied :
         LET app == applied[i]
         IN app.key = "created" =>
              app.result =
                IF ~Truthy(app.childVal) THEN app.parentVal
                ELSE Arr(HookSeq(app.parentVal) \o HookSeq(app.childVal))
    /\ Get(options, "created") =
         IF HooksExpected = <<>> THEN Undefined
         ELSE Arr(HooksExpected)

\* the parent, two mixins and the child all declare the hook
C5_Witness ==
  /\ pc = "merged" /\ field = "created"
  /\ Len(MixinsOf(child)) = 2
  /\ Get(options, "created") =
       Arr(<<Fn("p1"), Fn("p2"), Fn("m1"), Fn("m2"), Fn("g"), Fn("c1")>>)

\* the keys of a child and of everything folded into its parent
RECURSIVE ChainKeys(_)
ChainKeys(node) ==
  LET o == OptionsOf(node)
  IN ForInKeys(o)
       \cup (IF HasExtends(o) THEN ChainKeys(o.own["extends"]) ELSE {})
       \cup UNION {ChainKeys(MixinsOf(o)[i]) : i \in DOMAIN MixinsOf(o)}

\* the strategy applications of the outermost mergeOptions call
TopApplied == LET Top(a) == a.depth = 0 IN SelectSeq(applied, Top)

\* C10: mergeOptions returns a newly built object; its keys are the field
\* names of the effective parent and of the normalized child; each entry is
\* the field's strategy applied to (parent[field], child[field]), applied
\* once per field
C10_FreshExactlyOnce ==
  pc # "ready" =>
    /\ ref \notin {"parent", "child"}
    /\ options.proto = Null
    /\ DOMAIN options.own = ForInKeys(parent) \cup ChainKeys(child)
    /\ \A k \in DOMAIN options.own :
         /\ Cardinality({i \in DOMAIN TopApplied : TopApplied[i].key = k}) = 1
         /\ \A i \in DOMAIN TopApplied :
              TopApplied[i].key = k =>
                /\ TopApplied[i].childVal = Get(child, k)
                /\ (MixinsOf(child) = <<>> /\ ~HasExtends(child)
                      => TopApplied[i].parentVal = Get(parent, k))
                /\ options.own[k] =
                     Strat(k, TopApplied[i].parentVal, Get(child, k), vm)
    /\ \A i \in DOMAIN TopApplied : TopApplied[i].key \in DOMAIN options.own

\* parent and child both own the field, and a mixin is folded in
C10_Witness ==
  /\ pc = "merged"
  /\ field = "a"
  /\ HasOwn(parent, "a") /\ HasOwn(child, "a")
  /\ Len(MixinsOf(child)) = 1
  /\ DOMAIN options.own = {"a", "inject", "mixins"}

\* a watch entry as a sequence of handlers
HandlerSeq(v) == IF ~Truthy(v) THEN <<>> ELSE IF IsArray(v) THEN v.elems ELSE <<v>>

\* a watch operand with the platform's built-in taken as absent
NoNative(v) == IF v = NativeWatch THEN Undefined ELSE v

\* the applications of the watch strategy
WatchApplied == {i \in DOMAIN applied : applied[i].key = "watch"}

\* where the child is present every child key holds the parent's handlers
\* followed by the child's, as a sequence
WatchAppends(p, c, r) ==
  /\ r.t = "object"
  /\ \A k \in ForInKeys(p) : HasOwn(r, k)
  /\ \A k \in ForInKeys(c) :
       /\ HasOwn(r, k)
       /\ r.own[k] = Arr(HandlerSeq(Get(p, k)) \o HandlerSeq(Get(c, k)))

\* C9 as stated: whenever the child value is present the result contains
\* every parent entry and every child key holds a sequence, the parent's
\* handlers followed by the child's; an absent child gives an empty object
\* falling back to the parent
C9_AsStated ==
  \A i \in WatchApplied :
    LET p == NoNative(applied[i].parentVal)
        c == NoNative(applied[i].childVal)
        r == applied[i].result
    IN IF Truthy(c) THEN WatchAppends(p, c, r)
       ELSE r = Obj(NoProps, IF Truthy(p) THEN p ELSE Null)

\* C9, amended: as stated where parent and child are both present; where
\* the parent is absent the child value is returned as it is
C9_WatchMerge ==
  \A i \in WatchApplied :
    LET p == NoNative(applied[i].parentVal)
        c == NoNative(applied[i].childVal)
        r == applied[i].result
    IN /\ (~Truthy(c) => r = Obj(NoProps, IF Truthy(p) THEN p ELSE Null))
       /\ (Truthy(c) /\ ~Truthy(p) => r = c)
       /\ (Truthy(c) /\ Truthy(p) =>
             /\ WatchAppends(p, c, r)
             /\ DOMAIN r.own = ForInKeys(p) \cup ForInKeys(c)
             /\ \A k \in ForInKeys(p) \ ForInKeys(c) : r.own[k] = Get(p, k))

\* parent and child both watch w, the parent with a single callable
C9_Witness ==
  /\ pc = "merged" /\ field = "watch"
  /\ Get(parent, "watch") = Obj(Prop("w", Fn("p1")), Null)
  /\ Get(child, "watch") = Obj(Prop("w", Fn("c1")), Null)
  /\ MixinsOf(child) = <<>> /\ ~HasExtends(child)
  /\ Get(options, "watch") = Obj(Prop("w", Arr(<<Fn("p1"), Fn("c1")>>)), Null)

----------------------------------------------------------------------------
(* Properties of the normalizers.                                          *)

\* each node mergeOptions normalizes, as handed in and as it is afterwards:
\* the child, its base config and its mixins
NodePairs ==
  {<<given, child>>}
    \cup (IF HasExtends(given) THEN {<<ExtendsOf(given), ExtendsOf(child)>>} ELSE {})
    \cup {<<OptionsOf(MixinsOf(given)[i]), OptionsOf(MixinsOf(child)[i])>> :
            i \in DOMAIN MixinsOf(given)}

\* a mapping from camel-cased names to descriptor mappings
PropsMapping(v) ==
  /\ v.t = "object"
  /\ \A k \in DOMAIN v.own : Camelize(k) = k /\ IsPlainObject(v.own[k])

\* every descriptor contains a type key
PropsTyped(v) == \A k \in DOMAIN v.own : HasOwn(v.own[k], "type")

\* a mapping from local names to descriptor mappings containing a from key
InjectMapping(v) ==
  /\ v.t = "object"
  /\ \A k \in DOMAIN v.own : IsPlainObject(v.own[k]) /\ HasOwn(v.own[k], "from")

\* every directive that was a bare function is { bind: f, update: f }
DirectivesExpanded(before, after) ==
  \A k \in ForInKeys(before) :
    TypeOf(Get(before, k)) = "function" =>
      Get(after, k) = Obj([h \in {"bind", "update"} |-> Get(before, k)], Null)

\* no strategy is applied to a shape the normalizers have not produced
AppliedNormalized ==
  \A i \in DOMAIN applied :
    LET app == applied[i]
    IN /\ (app.key = "props" /\ Truthy(app.childVal) => PropsMapping(app.childVal))
       /\ (app.key = "inject" => InjectMapping(app.childVal))
       /\ (app.key = "directives" /\ Truthy(app.childVal) =>
             \A k \in ForInKeys(app.childVal) :
               TypeOf(Get(app.childVal, k)) # "function")

\* inject and directives after the normalizers, for one node
InjectAndDirectivesNormalized(before, after) ==
  /\ InjectMapping(Get(after, "inject"))
  /\ (Truthy(Get(before, "directives")) =>
        DirectivesExpanded(Get(before, "directives"), Get(after, "directives")))

\* C8 as stated: after the normalizers every props declaration given is a
\* mapping from camel-cased name to a descriptor mapping that contains a
\* type key, inject is a mapping to descriptors that contain a from key,
\* every bare function directive is { bind, update }, and no strategy sees
\* a shape that is not normalized
C8_AsStated ==
  (pc # "ready" /\ field \in {"props", "inject", "directives"}) =>
    /\ \A pair \in NodePairs :
         /\ (Truthy(Get(pair[1], "props")) =>
               /\ PropsMapping(Get(pair[2], "props"))
               /\ PropsTyped(Get(pair[2], "props")))
         /\ InjectAndDirectivesNormalized(pair[1], pair[2])
    /\ AppliedNormalized

\* the descriptor under `name` either contains a type key or is the plain
\* mapping the declaration gave under a key that camelizes to `name`
TypedOrGiven(before, after, name) ==
  \/ HasOwn(after.own[name], "type")
  \/ \E k \in ForInKeys(before) :
       /\ Camelize(k) = name
       /\ IsPlainObject(Get(before, k))
       /\ Get(before, k) = after.own[name]

\* C8, amended: as stated, except that a props descriptor given as a plain
\* mapping is passed through as it is, with a type key only if it was given
\* one; a props value that is absent or falsy is left as it is
C8_NormalizedShapes ==
  (pc # "ready" /\ field \in {"props", "inject", "directives"}) =>
    /\ \A pair \in NodePairs :
         LET before == Get(pair[1], "props")
             after == Get(pair[2], "props")
         IN /\ (Truthy(before) =>
                  /\ PropsMapping(after)
                  /\ \A name \in DOMAIN after.own : TypedOrGiven(before, after, name))
            /\ (~Truthy(before) => HasOwn(pair[2], "props") = HasOwn(pair[1], "props"))
            /\ InjectAndDirectivesNormalized(pair[1], pair[2])
    /\ AppliedNormalized

\* props given by kebab-case name with a bare type: camel-cased and wrapped
C8_Witness ==
  /\ pc = "merged" /\ field = "props"
  /\ Get(given, "props") = Obj(Prop(NaDashB, String), Null)
  /\ Get(child, "props") = Obj(Prop(NaB, Obj(Prop("type", String), Null)), Null)

----------------------------------------------------------------------------
(* Properties of the data and provide strategies.                          *)

\* the applications of the data and provide strategies
DataApplied == {i \in DOMAIN applied : applied[i].key \in {"data", "provide"}}

RECURSIVE At(_, _)
At(o, path) ==
  IF path = <<>> THEN o
  ELSE IF HasOwn(o, path[1]) THEN At(o.own[path[1]], Tail(path))
  ELSE Undefined

\* the paths of the plain objects of o, itself included
RECURSIVE ObjectPaths(_)
ObjectPaths(o) ==
  IF ~IsPlainObject(o) THEN {}
  ELSE {<<>>} \cup UNION {{<<k>> \o q : q \in ObjectPaths(o.own[k])} : k \in DOMAIN o.own}

\* the keys of the data objects
DataKeys == {"x", "y", "n"}

\* the keys the object `after` owns and `before` does not, with the path of
\* the object of `before` they were put on
Introduced(before, after) ==
  {pk \in ObjectPaths(before) \X DataKeys :
     /\ HasOwn(At(after, pk[1]), pk[2])
     /\ ~HasOwn(At(before, pk[1]), pk[2])}

\* the merge target of the data function f: what its child operand gives
TargetOf(f) ==
  IF TypeOf(f.childVal) = "function" THEN CallFn(f.childVal).ret ELSE f.childVal

\* the data function merges its operands when called
Merging(f) == f.t = "function" /\ f.code \in {"mergedDataFn", "mergedInstanceDataFn"}

\* how often set() was called on the target itself for the key at the path
SetCalls(log, pk) ==
  Cardinality({i \in DOMAIN log :
                 log[i].call = <<>> /\ log[i].path = pk[1] /\ log[i].key = pk[2]})

\* C7 as stated: when mergeOptions has returned, set() has been called once
\* for each key the merge of the data or provide values introduces
C7_AsStated ==
  (pc = "merged" /\ field \in {"data", "provide"} /\ Merging(Get(options, field))) =>
    LET f == Get(options, field)
    IN \A pk \in Introduced(TargetOf(f), CallFn(f).ret) : SetCalls(setLog, pk) = 1

\* C7, amended: mergeOptions itself never calls set(); when the data
\* function it returned is called, set() is called exactly once for each
\* key newly introduced onto the merge target, and for no other key
C7_SetWhenCalled ==
  /\ (pc \in {"ready", "merged"} => setLog = <<>>)
  /\ (pc = "called" /\ Merging(Get(options, field))) =>
       LET f == Get(options, field)
           direct == {i \in DOMAIN setLog : setLog[i].call = <<>>}
       IN /\ \A pk \in Introduced(TargetOf(f), data) : SetCalls(setLog, pk) = 1
          /\ \A i \in direct :
               <<setLog[i].path, setLog[i].key>> \in Introduced(TargetOf(f), data)
          /\ \A i, j \in DOMAIN setLog : setLog[i] = setLog[j] => i = j

\* the child's data owns x, the parent's brings y: one set() call, for y
C7_Witness ==
  /\ pc = "called" /\ field = "data"
  /\ Merging(Get(options, "data"))
  /\ TargetOf(Get(options, "data")) = Obj(Prop("x", Num(1)), Null)
  /\ setLog = <<[call |-> <<>>, path |-> <<>>, key |-> "y"]>>
  /\ data = Obj([k \in {"x", "y"} |-> IF k = "x" THEN Num(1) ELSE Num(3)], Null)

----------------------------------------------------------------------------
(* Merging data: objects merged one after another into the same target.    *)

MaxMerges == 2

InitData ==
  /\ to \in DataObjs
  /\ orig = to
  /\ source = Undefined
  /\ merges = 0
  /\ setLog = <<>>
  /\ pc = "ready"
  /\ field = "data"
  /\ parent = Undefined /\ child = Undefined /\ given = Undefined
  /\ vm = Undefined /\ options = Undefined /\ applied = <<>> /\ ref = "none"
  /\ data = Undefined /\ chain = <<>> /\ id = Undefined /\ res = Undefined

\* mergeData(to, from), `to` being changed in place
MergeDataCall ==
  /\ merges < MaxMerges
  /\ \E f \in DataObjs \cup {Undefined} :
       LET r == MergeData(to, f, <<>>)
       IN /\ to' = r.to
          /\ setLog' = r.log
          /\ source' = f
  /\ merges' = merges + 1
  /\ UNCHANGED <<orig, pc, field, parent, child, given, vm, options, applied,
                 ref, data, chain, id, res>>

NextData == MergeDataCall

SpecData == InitData /\ [][NextData]_vars

RECURSIVE FirstInstalledWins(_, _, _)
\* `after` is `before` with every key of `from` it did not own installed
\* with from's value, the plain mappings under a shared key merged alike,
\* and every other value as it was
FirstInstalledWins(before, from, after) ==
  IF ~Truthy(from) THEN after = before
  ELSE /\ after.t = "object"
       /\ DOMAIN after.own = DOMAIN before.own \cup DOMAIN from.own
       /\ \A k \in DOMAIN after.own :
            IF k \notin DOMAIN before.own THEN after.own[k] = from.own[k]
            ELSE IF /\ k \in DOMAIN from.own
                    /\ IsPlainObject(before.own[k])
                    /\ IsPlainObject(from.own[k])
              THEN FirstInstalledWins(before.own[k], from.own[k], after.own[k])
            ELSE after.own[k] = before.own[k]

RECURSIVE Preserved(_, _)
\* every value of `before` that is no mapping is the value of `after` under
\* the same keys
Preserved(before, after) ==
  \A k \in DOMAIN before.own :
    /\ HasOwn(after, k)
    /\ IF IsPlainObject(before.own[k]) THEN Preserved(before.own[k], after.own[k])
       ELSE after.own[k] = before.own[k]

\* C2: mergeData installs the keys the target does not own, recurses where
\* both values are plain mappings and leaves every other value of the
\* target untouched; what the target owned first it keeps through any
\* chain of merges
C2_FirstInstalledWins ==
  [][merges' = merges + 1 =>
       /\ FirstInstalledWins(to, source', to')
       /\ Preserved(orig', to')]_vars

\* {x: 1} merged with {x: 2, y: 3}, and with one more object, keeps x = 1
C2_Witness ==
  /\ merges = 2
  /\ orig = Obj(Prop("x", Num(1)), Null)
  /\ to = Obj([k \in {"x", "y"} |-> IF k = "x" THEN Num(1) ELSE Num(3)], Null)
  /\ source = Obj([k \in {"x", "y"} |-> IF k = "x" THEN Num(2) ELSE Num(3)], Null)

----------------------------------------------------------------------------
(* Assets: a chain of mergeOptions calls, each on the options the one      *)
(* before returned, and resolveAsset on the result.                        *)

MaxChain == 3
MaxIdLen == 3

\* the characters of the ids handed to resolveAsset
IdChars == {"a", "A", "-"}

NAa == <<"A", "a">>
NaDashA == <<"a", "-", "a">>
NaA == <<"a", "A">>
NAA == <<"A", "A">>

\* the names assets are declared under
AssetNames == {NA, NAa, NaDashA, NaA, NAA}

\* the sets of names one options object declares
AssetNameSets == {{}} \cup {{n} : n \in AssetNames} \cup {{NaDashA, NAA}}

DefNames == <<"D1", "D2", "D3", "D4", "D5">>

\* the assets declared under the names `names` by the level-th options
\* object of the chain
Declared(names, level) == [n \in names |-> Fn(DefNames[level])]

\* the ids: every string of at most MaxIdLen characters, and a number
Ids ==
  {Str(s) : s \in UNION {[1..n -> IdChars] : n \in 0..MaxIdLen}} \cup {Num(1)}

InitAsset ==
  \E names \in AssetNameSets :
    /\ chain = <<Declared(names, 1)>>
    /\ options = Obj(Prop("components", Obj(Declared(names, 1), Null)), Null)
    /\ pc = "ready"
    /\ field = "components"
    /\ id = Undefined /\ res = Undefined
    /\ parent = Undefined /\ child = Undefined /\ given = Undefined
    /\ vm = Undefined /\ applied = <<>> /\ ref = "none" /\ setLog = <<>>
    /\ data = Undefined /\ to = Undefined /\ orig = Undefined
    /\ source = Undefined /\ merges = 0

\* options = mergeOptions(options, { components }), as extending a
\* constructor does
Derive ==
  /\ Len(chain) < MaxChain
  /\ \E names \in AssetNameSets, declares \in BOOLEAN :
       LET level == Len(chain) + 1
           assets == Declared(names, level)
           node == Node("components",
                        IF declares THEN Obj(assets, Null) ELSE Undefined,
                        Undefined, <<>>)
       IN /\ declares \/ names = {}
          /\ options' = MergeOptions(options, node, Undefined, 0).options
          /\ chain' = Append(chain, assets)
  /\ pc' = "merged"
  /\ id' = Undefined /\ res' = Undefined
  /\ UNCHANGED <<field, parent, child, given, vm, applied, ref, setLog, data, to,
                 orig, source, merges>>

\* options = mergeOptions(options, { mixins: [{ components }], components })
DeriveWithMixin ==
  /\ Len(chain) + 1 < MaxChain
  /\ \E mixed \in AssetNameSets, names \in AssetNameSets :
       LET level == Len(chain) + 1
           mixin == Node("components", Obj(Declared(mixed, level), Null),
                         Undefined, <<>>)
           node == Node("components", Obj(Declared(names, level + 1), Null),
                        Undefined, <<mixin>>)
       IN /\ options' = MergeOptions(options, node, Undefined, 0).options
          /\ chain' = chain \o <<Declared(mixed, level), Declared(names, level + 1)>>
  /\ pc' = "merged"
  /\ id' = Undefined /\ res' = Undefined
  /\ UNCHANGED <<field, parent, child, given, vm, applied, ref, setLog, data, to,
                 orig, source, merges>>

\* res = resolveAsset(options, 'components', id)
Resolve ==
  /\ pc # "resolved"
  /\ \E i \in Ids :
       /\ id' = i
       /\ res' = ResolveAsset(options, "components", i)
  /\ pc' = "resolved"
  /\ UNCHANGED <<options, chain, field, parent, child, given, vm, applied, ref,
                 setLog, data, to, orig, source, merges>>

NextAsset == Derive \/ DeriveWithMixin \/ Resolve

SpecAsset == InitAsset /\ [][NextAsset]_vars

\* the levels among the first m of the chain that declare the name k
DeclaringLevels(k, m) == {i \in 1..m : k \in DOMAIN chain[i]}

\* the declaration of k nearest to the descendant among the first m levels
Nearest(k, m) ==
  IF DeclaringLevels(k, m) = {} THEN Undefined
  ELSE chain[Last(DeclaringLevels(k, m))][k]

\* the smallest member of a non-empty set of numbers
First(S) == CHOOSE i \in S : \A j \in S : i <= j

\* the id, its camel-cased and its capitalized camel-cased variant
Variants(name) == <<name, Camelize(name), Capitalize(Camelize(name))>>

\* the declaration of the level-th options object under k is shadowed: a
\* nearer options object declares k, or the descendant itself declares a
\* casing variant of k
Shadowed(level, k) ==
  \/ \E j \in (level + 1)..Len(chain) : k \in DOMAIN chain[j]
  \/ /\ level < Len(chain)
     /\ \E j \in 1..3 : Variants(k)[j] \in DOMAIN chain[Len(chain)]

ResolveExpected ==
  IF id.t # "string" THEN Undefined
  ELSE LET n == Len(chain)
           v == Variants(id.chars)
           ownHits == {j \in 1..3 : v[j] \in DOMAIN chain[n]}
           inheritedHits == {j \in 1..3 : DeclaringLevels(v[j], n - 1) # {}}
       IN IF ownHits # {} THEN chain[n][v[First(ownHits)]]
          ELSE IF inheritedHits # {} THEN Nearest(v[First(inheritedHits)], n - 1)
          ELSE Undefined

\* C4: resolveAsset returns the own entry under the first of id,
\* camelize(id), capitalize(camelize(id)) that is own-present; else the
\* inherited entry under the first of the three present in the chain; else
\* undefined; an own entry under any variant wins over any inherited one;
\* an id that is no string gives undefined
C4_ResolveOrder == pc = "resolved" => res = ResolveExpected

\* the descendant's own PascalCase entry wins over the inherited entry
\* under the very id asked for
C4_Witness ==
  /\ pc = "resolved"
  /\ chain = <<Declared({NaDashA}, 1), Declared({NAA}, 2)>>
  /\ id = Str(NaDashA)
  /\ res = Fn("D2")

=============================================================================
